---- MODULE Spec2Model ----
(***************************************************************************)
(* The matchmaking sweep of matching-service/workers/matchWorker.ts.      *)
(*                                                                         *)
(* Shared state is the Redis sorted set 'matching_queue', the per-user     *)
(* hashes stored under each userKey, the socket registry, the MongoDB      *)
(* MatchingEvent and Room collections and the Redis stream 'match_events'. *)
(* A sweep is one invocation of the setInterval callback; it is cut into   *)
(* one action per awaited store call, so that other sweeps and the         *)
(* out-of-band collaborators (enqueue, cancel, disconnect) interleave with *)
(* it exactly where the event loop lets them.  The synchronous code that   *)
(* runs after an await resolves belongs to the action of that await.       *)
(***************************************************************************)
EXTENDS Integers, Sequences, FiniteSets, TLC

\* ---------------------------------------------------------------- constants

RELAXATION_INTERVAL == 10000

MATCH_TIMEOUT == 30000

\* Number of distinct userKeys the enqueue collaborator may create.
MaxKeys == 3

\* Number of setInterval callbacks that may be in flight at the same time.
MaxSweeps == 2

\* The clock advances in steps of one relaxation interval, MaxClockSteps times.
MaxClockSteps == 3

ClockStep == RELAXATION_INTERVAL

Keys == 1..MaxKeys

Sweeps == 1..MaxSweeps

\* The value of parseInt(undefined): requestedAt of an empty hash.
NaN == -1

IsNaN(x) == x = NaN

\* category/difficulty pairs the clients ask for.
Profiles ==
    { [category |-> "Math",    difficulty |-> "Easy"],
      [category |-> "Math",    difficulty |-> "Hard"],
      [category |-> "Science", difficulty |-> "Easy"] }

\* No hash is stored under the key.
NoHash == [id |-> 0, category |-> "", difficulty |-> "", requestedAt |-> NaN]

\* hGetAll of a key that has no hash: an object without fields.
EmptyObject == [id |-> 0, category |-> "undefined", difficulty |-> "undefined",
                requestedAt |-> NaN]

\* Saturation value of the history counters.
MaxCount == 2

\* No pure function is being probed.
NoProbe == [fn |-> "none"]

\* Arguments of the probed calls of canUsersMatch: the users' category and
\* difficulty, and levels from -1 to MaxProbeLevel.
MaxProbeLevel == 3

ProbeLevels == (-1)..MaxProbeLevel

ProbeUsers == [category : {"Math", "Science"}, difficulty : {"Easy", "Hard"}]

\* Arguments of the probed calls of getRelaxationLevel: the times within one
\* millisecond of a multiple of RELAXATION_INTERVAL, up to MaxProbeIntervals.
MaxProbeIntervals == 3

ProbeTimes ==
    {m * RELAXATION_INTERVAL + d : m \in 0..MaxProbeIntervals, d \in {-1, 0, 1}} \ {-1}

VARIABLES
    clock,        \* Date.now()
    queue,        \* members of the sorted set 'matching_queue'
    hash,         \* per userKey, the fields of the hash stored under it, or NoHash
    enqueued,     \* number of userKeys handed out so far
    connected,    \* userKeys whose socket is registered and connected
    sw,           \* the local state of each in-flight setInterval callback
    matchDocs,    \* saved MatchingEventModel documents, _id = index
    rooms,        \* saved Room documents, _id = index
    matchEvents,  \* entries of the stream 'match_events'
    handed,       \* history: per userKey, number of handleMatch calls it was passed to
    failedEmits,  \* history: per userKey, number of MATCH_FAILED emits to its socket
    probe         \* a call outside the sweep: the arguments and the result of one
                  \* call of a pure function, or the history collection and the
                  \* requests of createOrUpdateUserHistoryEntry

vars == <<clock, queue, hash, enqueued, connected, sw, matchDocs, rooms, matchEvents,
          handed, failedEmits, probe>>

\* ------------------------------------------------------------ pure functions

\* getRelaxationLevel with exclusive bounds (`<` for `<=` on lines 103 and 105).
getRelaxationLevelExclusive(userData, nowMs) ==
    LET requestedAt == userData.requestedAt
        elapsedTime == nowMs - requestedAt
    IN  IF IsNaN(requestedAt) THEN 2
        ELSE IF elapsedTime < RELAXATION_INTERVAL THEN 0
        ELSE IF elapsedTime < RELAXATION_INTERVAL * 2 THEN 1
        ELSE 2

\* getRelaxationLevel, with Date.now() passed in.  Comparisons with NaN are false.
getRelaxationLevel(userData, nowMs) ==
    LET requestedAt == userData.requestedAt
        elapsedTime == nowMs - requestedAt
    IN  IF IsNaN(requestedAt) THEN 2
        ELSE IF elapsedTime <= RELAXATION_INTERVAL THEN 0
        ELSE IF elapsedTime <= RELAXATION_INTERVAL * 2 THEN 1
        ELSE 2

\* getRelaxedCriteria with the cases of levels 1 and 2 exchanged.
getRelaxedCriteriaExchanged(relaxationLevel, userData) ==
    CASE relaxationLevel = 0 ->
            [category |-> userData.category, difficulty |-> userData.difficulty]
      [] relaxationLevel = 1 ->
            [category |-> "Any", difficulty |-> userData.difficulty]
      [] relaxationLevel = 2 ->
            [category |-> userData.category, difficulty |-> "Any"]
      [] OTHER ->
            [category |-> userData.category, difficulty |-> userData.difficulty]

getRelaxedCriteria(relaxationLevel, userData) ==
    CASE relaxationLevel = 0 ->
            [category |-> userData.category, difficulty |-> userData.difficulty]
      [] relaxationLevel = 1 ->
            [category |-> userData.category, difficulty |-> "Any"]
      [] relaxationLevel = 2 ->
            [category |-> "Any", difficulty |-> userData.difficulty]
      [] OTHER ->
            [category |-> userData.category, difficulty |-> userData.difficulty]

isCriteriaSatisfied(user, relaxedCriteria) ==
    LET categoryMatch ==
            relaxedCriteria.category = "Any" \/ user.category = relaxedCriteria.category
        difficultyMatch ==
            relaxedCriteria.difficulty = "Any" \/ user.difficulty = relaxedCriteria.difficulty
    IN  categoryMatch /\ difficultyMatch

\* canUsersMatch with line 134 reading getRelaxedCriteria(i, user2).
canUsersMatchSwept(user1, user2, relaxationLevel1, relaxationLevel2) ==
    IF relaxationLevel1 < 0 \/ relaxationLevel1 > 2 THEN FALSE
    ELSE IF relaxationLevel2 < 0 \/ relaxationLevel2 > 2 THEN FALSE
    ELSE \/ \E i \in 0..relaxationLevel1 :
                isCriteriaSatisfied(user2, getRelaxedCriteria(i, user1))
         \/ \E i \in 0..relaxationLevel2 :
                isCriteriaSatisfied(user1, getRelaxedCriteria(i, user2))

\* canUsersMatch with `>= 2` for `> 2` on line 132.
canUsersMatchBelowTwo(user1, user2, relaxationLevel1, relaxationLevel2) ==
    IF relaxationLevel1 < 0 \/ relaxationLevel1 > 2 THEN FALSE
    ELSE IF relaxationLevel2 < 0 \/ relaxationLevel2 >= 2 THEN FALSE
    ELSE \/ \E i \in 0..relaxationLevel1 :
                isCriteriaSatisfied(user2, getRelaxedCriteria(i, user1))
         \/ \E i \in 0..relaxationLevel2 :
                isCriteriaSatisfied(user1, getRelaxedCriteria(relaxationLevel2, user2))

\* canUsersMatch with the first loop testing only user1's maximum level.
canUsersMatchMaximumOnly(user1, user2, relaxationLevel1, relaxationLevel2) ==
    IF relaxationLevel1 < 0 \/ relaxationLevel1 > 2 THEN FALSE
    ELSE IF relaxationLevel2 < 0 \/ relaxationLevel2 > 2 THEN FALSE
    ELSE \/ \E i \in 0..relaxationLevel1 :
                isCriteriaSatisfied(user2, getRelaxedCriteria(relaxationLevel1, user1))
         \/ \E i \in 0..relaxationLevel2 :
                isCriteriaSatisfied(user1, getRelaxedCriteria(relaxationLevel2, user2))

canUsersMatch(user1, user2, relaxationLevel1, relaxationLevel2) ==
    IF relaxationLevel1 < 0 \/ relaxationLevel1 > 2 THEN FALSE
    ELSE IF relaxationLevel2 < 0 \/ relaxationLevel2 > 2 THEN FALSE
    ELSE \/ \E i \in 0..relaxationLevel1 :
                isCriteriaSatisfied(user2, getRelaxedCriteria(i, user1))
         \* the second loop runs relaxationLevel2 + 1 times on the same criteria
         \/ \E i \in 0..relaxationLevel2 :
                isCriteriaSatisfied(user1, getRelaxedCriteria(relaxationLevel2, user2))

\* ------------------------------------------------------- Array.prototype.sort

\* The comparator of line 35 with its operands exchanged.
sortOrderDescending(a, b) ==
    IF IsNaN(a.userData.requestedAt) \/ IsNaN(b.userData.requestedAt) THEN 0
    ELSE b.userData.requestedAt - a.userData.requestedAt

\* The comparator of line 35; V8 reads a NaN result as 0.
sortOrder(a, b) ==
    IF IsNaN(a.userData.requestedAt) \/ IsNaN(b.userData.requestedAt) THEN 0
    ELSE a.userData.requestedAt - b.userData.requestedAt

RECURSIVE RunEnd(_, _, _)
\* CountAndMakeRun: the last index of the run that starts at index 1.
RunEnd(a, idx, isDescending) ==
    IF idx > Len(a) THEN idx - 1
    ELSE LET order == sortOrder(a[idx], a[idx - 1])
         IN  IF (isDescending /\ order >= 0) \/ (~isDescending /\ order < 0)
             THEN idx - 1
             ELSE RunEnd(a, idx + 1, isDescending)

ReversePrefix(a, n) ==
    [x \in 1..Len(a) |-> IF x <= n THEN a[n + 1 - x] ELSE a[x]]

RECURSIVE BinarySearch(_, _, _, _)
\* The insertion point of pivot in a[left..right-1].
BinarySearch(a, pivot, left, right) ==
    IF left >= right THEN left
    ELSE LET mid == left + ((right - left) \div 2)
         IN  IF sortOrder(pivot, a[mid]) < 0
             THEN BinarySearch(a, pivot, left, mid)
             ELSE BinarySearch(a, pivot, mid + 1, right)

InsertPivot(a, start) ==
    LET pivot == a[start]
        pos   == BinarySearch(a, pivot, 1, start)
    IN  [x \in 1..Len(a) |->
            IF x < pos THEN a[x]
            ELSE IF x = pos THEN pivot
            ELSE IF x <= start THEN a[x - 1]
            ELSE a[x]]

RECURSIVE BinaryInsertionSort(_, _)
BinaryInsertionSort(a, start) ==
    IF start > Len(a) THEN a
    ELSE BinaryInsertionSort(InsertPivot(a, start), start + 1)

\* validUsers.sort(...) for arrays shorter than the merge threshold: one run is
\* found (and reversed when descending), the rest is inserted by binary search.
ArraySort(a) ==
    IF Len(a) < 2 THEN a
    ELSE LET isDescending == sortOrder(a[2], a[1]) < 0
             run == RunEnd(a, 3, isDescending)
             b   == IF isDescending THEN ReversePrefix(a, run) ELSE a
         IN  BinaryInsertionSort(b, run + 1)

\* ------------------------------------------------------------- store reads

Min(S) == CHOOSE x \in S : \A y \in S : x <= y

RECURSIVE SetToSeq(_)
SetToSeq(S) ==
    IF S = {} THEN <<>>
    ELSE LET m == Min(S) IN <<m>> \o SetToSeq(S \ {m})

\* zRange('matching_queue', 0, -1): the members in the order of their scores (the
\* enqueue time), and in the order of the keys for equal scores.  Keys are handed
\* out in ascending order, so this is the ascending order of the keys.
zRange(q) == SetToSeq(q)

\* hGetAll(userKey): the stored fields, or an object without fields.
hGetAll(h, userKey) == IF h[userKey] # NoHash THEN h[userKey] ELSE EmptyObject

\* A presence check that never reports an absent member.
zRankNeverNull(q, userKey) == "rank"

\* zRank('matching_queue', userKey): a rank, or null.
zRank(q, userKey) == IF userKey \in q THEN "rank" ELSE "null"

\* `userData ? {...} : null`: every object is truthy.
Truthy(userData) == TRUE

\* `a || b || 'Any'` on strings: undefined and the empty string are falsy.
FirstNonEmpty(a, b) ==
    IF a \notin {"undefined", ""} THEN a
    ELSE IF b \notin {"undefined", ""} THEN b
    ELSE "Any"

\* ---------------------------------------------------------- the sweep's locals

NoSweep ==
    [pc |-> "idle", now |-> 0, userKeys |-> <<>>, validUsers |-> <<>>,
     i |-> 0, j |-> 0, relaxationLevel1 |-> 0, matchedUsers |-> {},
     pairs |-> <<>>, absent |-> {}, removed |-> {}, t |-> 0, savedEvent |-> 0,
     roomId |-> 0]

Bump(n) == IF n < MaxCount THEN n + 1 ELSE n

KeyAt(r, x) == r.validUsers[x].userKey

DataAt(r, x) == r.validUsers[x].userData

\* The outer for loop from index `from`: the next i that passes line 44, or the
\* end of the loop, where handleTimeouts is called (line 86).
OuterFrom(r, from) ==
    LET is == {x \in from..Len(r.validUsers) : KeyAt(r, x) \notin r.matchedUsers}
    IN  IF is = {}
        THEN [r EXCEPT !.pc = "handleTimeouts", !.i = 0, !.j = 0,
                       !.relaxationLevel1 = 0, !.savedEvent = 0, !.roomId = 0]
        ELSE [r EXCEPT !.pc = "zRank1", !.i = Min(is), !.j = 0,
                       !.relaxationLevel1 = 0, !.savedEvent = 0, !.roomId = 0]

\* The inner for loop from index `from`: the next j that passes line 55, or the
\* end of the inner loop and the next round of the outer one.
InnerFrom(r, from) ==
    LET js == {x \in from..Len(r.validUsers) : KeyAt(r, x) \notin r.matchedUsers}
    IN  IF js = {}
        THEN OuterFrom(r, r.i + 1)
        ELSE [r EXCEPT !.pc = "zRank2", !.j = Min(js)]

\* Line 80 without its `break`: the inner loop goes on for the same userKey1.
AfterMatchNoBreak(r) == InnerFrom([r EXCEPT !.savedEvent = 0, !.roomId = 0], r.j + 1)

\* `break` on line 80, after handleMatch has returned.
AfterMatch(r) == OuterFrom(r, r.i + 1)

\* handleTimeouts, line 265: the entry's wait measured at the tick's `now`.
TimedOut(userData, currentTime) ==
    /\ ~IsNaN(userData.requestedAt)
    /\ currentTime - userData.requestedAt >= MATCH_TIMEOUT

\* handleTimeouts, line 269: the socket is registered and connected.
SocketConnected(userData) == userData.id \in connected

\* handleTimeouts' for loop from index `from`, up to its next await or to its end.
\* MATCH_FAILED is emitted synchronously before the first await of the branch.
TimeoutsFrom(s, r, from) ==
    LET ts == {x \in from..Len(r.validUsers) :
                  /\ TimedOut(DataAt(r, x), r.now)
                  /\ SocketConnected(DataAt(r, x))}
    IN  IF ts = {}
        THEN /\ sw' = [sw EXCEPT ![s] = [NoSweep EXCEPT !.pc = "done", !.now = r.now,
                                                     !.validUsers = r.validUsers]]
             /\ UNCHANGED failedEmits
        ELSE /\ sw' = [sw EXCEPT ![s] = [r EXCEPT !.pc = "toZRem", !.t = Min(ts)]]
             /\ failedEmits' = [failedEmits EXCEPT ![KeyAt(r, Min(ts))] = Bump(@)]

\* The synchronous code up to the sweep's next await.
Resume(s, r) ==
    IF r.pc = "handleTimeouts"
    THEN TimeoutsFrom(s, r, 1)
    ELSE sw' = [sw EXCEPT ![s] = r] /\ UNCHANGED failedEmits

\* ------------------------------------------------------------------- Init

\* The stores and the sweeps before the first tick.
InitStores ==
    /\ clock = 0
    /\ queue = {}
    /\ hash = [k \in Keys |-> NoHash]
    /\ enqueued = 0
    /\ connected = {}
    /\ sw = [s \in Sweeps |-> NoSweep]
    /\ matchDocs = <<>>
    /\ rooms = <<>>
    /\ matchEvents = <<>>
    /\ handed = [k \in Keys |-> 0]
    /\ failedEmits = [k \in Keys |-> 0]

Init ==
    /\ InitStores
    /\ probe = NoProbe

\* ------------------------------------------------------ out-of-band actions

\* Date.now() moves on by one ClockStep.  A sweep in flight sees the clock move at
\* most once: its second and later reads of Date.now() (lines 50, 61) may be one
\* step later than the `now` of line 19.
Tick ==
    /\ clock < MaxClockSteps * ClockStep
    /\ \A s \in Sweeps : sw[s].pc \in {"idle", "done", "failed"} \/ sw[s].now = clock
    /\ clock' = clock + ClockStep
    /\ UNCHANGED <<queue, hash, enqueued, connected, sw, matchDocs, rooms,
                   matchEvents, handed, failedEmits, probe>>

\* The enqueue collaborator: a new WaitingEntry under a key never used before
\* (the next one); its socket is connected.
Enqueue(k, p) ==
    /\ k = enqueued + 1
    /\ enqueued' = k
    /\ hash' = [hash EXCEPT ![k] = [id |-> k, category |-> p.category,
                                     difficulty |-> p.difficulty,
                                     requestedAt |-> clock]]
    /\ queue' = queue \cup {k}
    /\ connected' = connected \cup {k}
    /\ UNCHANGED <<clock, sw, matchDocs, rooms, matchEvents, handed, failedEmits,
                   probe>>

\* An out-of-band removal (the owner cancels): queue member and hash go together.
\* Only a removal of a key that some sweep in flight holds in its snapshot is
\* taken: any other one leaves a state that an entry never enqueued also gives.
Cancel(k) ==
    /\ k \in queue
    /\ \E s \in Sweeps :
          \/ \E x \in 1..Len(sw[s].userKeys) : sw[s].userKeys[x] = k
          \/ /\ sw[s].pc \notin {"idle", "done", "failed"}
             /\ \E x \in 1..Len(sw[s].validUsers) : sw[s].validUsers[x].userKey = k
    /\ queue' = queue \ {k}
    /\ hash' = [hash EXCEPT ![k] = NoHash]
    /\ UNCHANGED <<clock, enqueued, connected, sw, matchDocs, rooms, matchEvents,
                   handed, failedEmits, probe>>

\* The owner's socket disconnects.  The registry is read only for an entry whose
\* wait has reached MATCH_TIMEOUT (line 267), so an earlier disconnect is taken
\* at the moment the wait reaches it.
Disconnect(k) ==
    /\ k \in connected
    /\ k \in queue
    /\ clock - hash[k].requestedAt >= MATCH_TIMEOUT
    /\ connected' = connected \ {k}
    /\ UNCHANGED <<clock, queue, hash, enqueued, sw, matchDocs, rooms, matchEvents,
                   handed, failedEmits, probe>>

\* ------------------------------------------------------------ the sweep

InFlight(s) == sw[s].pc \notin {"idle", "done", "failed"}

\* setInterval fires: lines 17-22, a callback with fresh locals reads Date.now()
\* and sends zRange.
StartTick(s) ==
    /\ ~InFlight(s)
    /\ \A x \in Sweeps : x < s => InFlight(x)
    /\ sw' = [sw EXCEPT ![s] = [NoSweep EXCEPT !.pc = "zRange", !.now = clock]]
    /\ UNCHANGED <<clock, queue, hash, enqueued, connected, matchDocs, rooms,
                   matchEvents, handed, failedEmits, probe>>

\* Line 22: the reply of zRange.
ZRange(s) ==
    /\ sw[s].pc = "zRange"
    /\ sw' = [sw EXCEPT ![s].pc = "hGetAll", ![s].userKeys = zRange(queue)]
    /\ UNCHANGED <<clock, queue, hash, enqueued, connected, matchDocs, rooms,
                   matchEvents, handed, failedEmits, probe>>

\* Lines 25-35: the hGetAll replies, the filter and the sort; then the loop head.
\* The hGetAll commands are pipelined on one connection and read as one step.
HGetAll(s) ==
    /\ sw[s].pc = "hGetAll"
    /\ LET r == sw[s]
           users == [x \in 1..Len(r.userKeys) |->
                        [userKey |-> r.userKeys[x],
                         userData |-> hGetAll(hash, r.userKeys[x])]]
           validUsers == ArraySort(SelectSeq(users, LAMBDA u : Truthy(u.userData)))
       IN  Resume(s, OuterFrom([r EXCEPT !.userKeys = <<>>,
                                         !.validUsers = validUsers], 1))
    /\ UNCHANGED <<clock, queue, hash, enqueued, connected, matchDocs, rooms,
                   matchEvents, handed, probe>>

\* Lines 47-50: the reply of zRank for userKey1.
ZRank1(s) ==
    /\ sw[s].pc = "zRank1"
    /\ LET r == sw[s]
           userKey1 == KeyAt(r, r.i)
           isInQueue1 == zRank(queue, userKey1)
           seen == [r EXCEPT !.absent = IF userKey1 \in queue THEN @
                                        ELSE @ \cup {userKey1}]
       IN  IF isInQueue1 = "null"
           THEN Resume(s, OuterFrom(seen, r.i + 1))
           ELSE Resume(s, InnerFrom(
                    [seen EXCEPT !.relaxationLevel1 =
                                     getRelaxationLevel(DataAt(r, r.i), clock)],
                    r.i + 1))
    /\ UNCHANGED <<clock, queue, hash, enqueued, connected, matchDocs, rooms,
                   matchEvents, handed, probe>>

\* Lines 58-67: the reply of zRank for userKey2, the compatibility test and the
\* claim of the pair.
ZRank2(s) ==
    /\ sw[s].pc = "zRank2"
    /\ LET r == sw[s]
           userKey1 == KeyAt(r, r.i)
           userKey2 == KeyAt(r, r.j)
           isInQueue2 == zRank(queue, userKey2)
           seen == [r EXCEPT !.absent = IF userKey2 \in queue THEN @
                                        ELSE @ \cup {userKey2}]
           relaxationLevel2 == getRelaxationLevel(DataAt(r, r.j), clock)
       IN  IF isInQueue2 = "null"
           THEN Resume(s, InnerFrom(seen, r.j + 1))
           ELSE IF canUsersMatch(DataAt(r, r.i), DataAt(r, r.j),
                                 r.relaxationLevel1, relaxationLevel2)
           THEN Resume(s, [seen EXCEPT !.pc = "zRem1",
                                       !.matchedUsers = @ \cup {userKey1, userKey2}])
           ELSE Resume(s, InnerFrom(seen, r.j + 1))
    /\ UNCHANGED <<clock, queue, hash, enqueued, connected, matchDocs, rooms,
                   matchEvents, handed, probe>>

\* Line 70.  `removed` is history: the members this sweep's pairing scan removed.
ZRem1(s) ==
    /\ sw[s].pc = "zRem1"
    /\ queue' = queue \ {KeyAt(sw[s], sw[s].i)}
    /\ sw' = [sw EXCEPT ![s].pc = "zRem2",
                        ![s].removed = @ \cup ({KeyAt(sw[s], sw[s].i)} \cap queue)]
    /\ UNCHANGED <<clock, hash, enqueued, connected, matchDocs, rooms, matchEvents,
                   handed, failedEmits, probe>>

\* Lines 71-75: the second removal, then handleMatch is called with the pair.
ZRem2(s) ==
    /\ sw[s].pc = "zRem2"
    /\ LET r == sw[s]
           userKey1 == KeyAt(r, r.i)
           userKey2 == KeyAt(r, r.j)
       IN  /\ queue' = queue \ {userKey2}
           /\ sw' = [sw EXCEPT ![s] = [r EXCEPT !.pc = "hmSave",
                                                 !.removed = @ \cup ({userKey2} \cap queue),
                                                 !.pairs = Append(@, <<userKey1, userKey2>>)]]
           /\ handed' = [k \in Keys |-> IF k \in {userKey1, userKey2}
                                         THEN Bump(handed[k]) ELSE handed[k]]
    /\ UNCHANGED <<clock, hash, enqueued, connected, matchDocs, rooms, matchEvents,
                   failedEmits, probe>>

\* handleMatch, lines 198-212: matchingEvent.save() succeeds.
HmSave(s) ==
    /\ sw[s].pc = "hmSave"
    /\ LET r == sw[s]
           user1 == DataAt(r, r.i)
           user2 == DataAt(r, r.j)
       IN  /\ matchDocs' = Append(matchDocs,
                   [category |-> FirstNonEmpty(user1.category, user2.category),
                    difficulty |-> FirstNonEmpty(user1.difficulty, user2.difficulty)])
           /\ sw' = [sw EXCEPT ![s] = [r EXCEPT !.pc = "hmRoom",
                                                 !.savedEvent = Len(matchDocs) + 1]]
    /\ UNCHANGED <<clock, queue, hash, enqueued, connected, rooms, matchEvents,
                   handed, failedEmits, probe>>

\* handleMatch, line 215, and createRoom: newRoom.save() succeeds.
HmRoom(s) ==
    /\ sw[s].pc = "hmRoom"
    /\ LET r == sw[s]
           user1 == DataAt(r, r.i)
           user2 == DataAt(r, r.j)
       IN  /\ rooms' = Append(rooms,
                   [participants |-> <<user1.id, user2.id>>,
                    category |-> FirstNonEmpty(user1.category, user2.category),
                    difficulty |-> FirstNonEmpty(user1.difficulty, user2.difficulty)])
           /\ sw' = [sw EXCEPT ![s] = [r EXCEPT !.pc = "hmXAdd",
                                                 !.roomId = Len(rooms) + 1]]
    /\ UNCHANGED <<clock, queue, hash, enqueued, connected, matchDocs, matchEvents,
                   handed, failedEmits, probe>>

\* handleMatch, lines 218-245: xAdd succeeds; handleMatch returns and line 80 breaks.
HmXAdd(s) ==
    /\ sw[s].pc = "hmXAdd"
    /\ LET r == sw[s]
           user1 == DataAt(r, r.i)
           user2 == DataAt(r, r.j)
       IN  /\ matchEvents' = Append(matchEvents,
                   [user1 |-> user1.id, user2 |-> user2.id,
                    roomId |-> r.roomId, matchId |-> r.savedEvent])
           /\ Resume(s, AfterMatch(r))
    /\ UNCHANGED <<clock, queue, hash, enqueued, connected, matchDocs, rooms, handed,
                   probe>>

\* handleMatch without its catch: the rejection reaches the tick's catch, which
\* ends the tick.
HmFailRethrown(s) ==
    /\ sw[s].pc \in {"hmSave", "hmRoom", "hmXAdd"}
    /\ sw' = [sw EXCEPT ![s] = [NoSweep EXCEPT !.pc = "failed",
                                                !.pairs = sw[s].pairs,
                                                !.removed = sw[s].removed]]
    /\ UNCHANGED <<clock, queue, hash, enqueued, connected, matchDocs, rooms,
                   matchEvents, handed, failedEmits, probe>>

\* handleMatch, lines 246-248: an awaited call of handleMatch rejects (the logging
\* reads before the save, the save, createRoom or xAdd); the error is caught and
\* logged, handleMatch returns and line 80 breaks.
HmFail(s) ==
    /\ sw[s].pc \in {"hmSave", "hmRoom", "hmXAdd"}
    /\ Resume(s, AfterMatch(sw[s]))
    /\ UNCHANGED <<clock, queue, hash, enqueued, connected, matchDocs, rooms,
                   matchEvents, handed, probe>>

\* handleTimeouts, line 277.
ToZRem(s) ==
    /\ sw[s].pc = "toZRem"
    /\ queue' = queue \ {KeyAt(sw[s], sw[s].t)}
    /\ sw' = [sw EXCEPT ![s].pc = "toDel"]
    /\ UNCHANGED <<clock, hash, enqueued, connected, matchDocs, rooms, matchEvents,
                   handed, failedEmits, probe>>

\* handleTimeouts, line 278, and the rest of its loop.
ToDel(s) ==
    /\ sw[s].pc = "toDel"
    /\ hash' = [hash EXCEPT ![KeyAt(sw[s], sw[s].t)] = NoHash]
    /\ TimeoutsFrom(s, sw[s], sw[s].t + 1)
    /\ UNCHANGED <<clock, queue, enqueued, connected, matchDocs, rooms, matchEvents,
                   handed, probe>>

\* The callback without its try/catch: the rejection is unhandled and ends the
\* process, so that no callback runs again.
StoreFailUnhandled(s) ==
    /\ sw[s].pc \in {"zRange", "hGetAll", "zRank1", "zRank2", "zRem1", "zRem2",
                     "toZRem", "toDel"}
    /\ sw' = [x \in Sweeps |-> [NoSweep EXCEPT !.pc = "exited"]]
    /\ UNCHANGED <<clock, queue, hash, enqueued, connected, matchDocs, rooms,
                   matchEvents, handed, failedEmits, probe>>

\* Lines 87-89: an awaited store call of the sweep rejects; the tick's catch logs
\* the error and the callback returns.  The history fields are kept.
StoreFail(s) ==
    /\ sw[s].pc \in {"zRange", "hGetAll", "zRank1", "zRank2", "zRem1", "zRem2",
                     "toZRem", "toDel"}
    /\ sw' = [sw EXCEPT ![s] = [NoSweep EXCEPT !.pc = "failed",
                                                !.pairs = sw[s].pairs,
                                                !.removed = sw[s].removed]]
    /\ UNCHANGED <<clock, queue, hash, enqueued, connected, matchDocs, rooms,
                   matchEvents, handed, failedEmits, probe>>

\* A tick that starts while no other tick is in flight.
StartTickAlone(s) ==
    /\ \A x \in Sweeps : ~InFlight(x)
    /\ StartTick(s)

\* Ticks that never overlap: every tick ends within MATCHING_INTERVAL.
Next ==
    \/ Tick
    \/ \E k \in Keys, p \in Profiles : Enqueue(k, p)
    \/ \E k \in Keys : Cancel(k)
    \/ \E k \in Keys : Disconnect(k)
    \/ \E s \in Sweeps : StartTickAlone(s)
    \/ \E s \in Sweeps : ZRange(s)
    \/ \E s \in Sweeps : HGetAll(s)
    \/ \E s \in Sweeps : ZRank1(s)
    \/ \E s \in Sweeps : ZRank2(s)
    \/ \E s \in Sweeps : ZRem1(s)
    \/ \E s \in Sweeps : ZRem2(s)
    \/ \E s \in Sweeps : HmSave(s)
    \/ \E s \in Sweeps : HmRoom(s)
    \/ \E s \in Sweeps : HmXAdd(s)
    \/ \E s \in Sweeps : HmFail(s)
    \/ \E s \in Sweeps : ToZRem(s)
    \/ \E s \in Sweeps : ToDel(s)
    \/ \E s \in Sweeps : StoreFail(s)

Spec == Init /\ [][Next]_vars

\* Ticks that never overlap, in the executions where no awaited call rejects and
\* no owner cancels.
NextFaultFree ==
    \/ Tick
    \/ \E k \in Keys, p \in Profiles : Enqueue(k, p)
    \/ \E k \in Keys : Disconnect(k)
    \/ \E s \in Sweeps : StartTickAlone(s)
    \/ \E s \in Sweeps : ZRange(s)
    \/ \E s \in Sweeps : HGetAll(s)
    \/ \E s \in Sweeps : ZRank1(s)
    \/ \E s \in Sweeps : ZRank2(s)
    \/ \E s \in Sweeps : ZRem1(s)
    \/ \E s \in Sweeps : ZRem2(s)
    \/ \E s \in Sweeps : HmSave(s)
    \/ \E s \in Sweeps : HmRoom(s)
    \/ \E s \in Sweeps : HmXAdd(s)
    \/ \E s \in Sweeps : ToZRem(s)
    \/ \E s \in Sweeps : ToDel(s)

SpecFaultFree == Init /\ [][NextFaultFree]_vars

\* Ticks that may overlap (a tick still awaiting when setInterval fires again, or
\* a second scheduler instance), over one key less, in the executions where no
\* awaited call rejects and no owner cancels.
NextOverlap ==
    \/ Tick
    \/ \E k \in 1..(MaxKeys - 1), p \in Profiles : Enqueue(k, p)
    \/ \E k \in Keys : Disconnect(k)
    \/ \E s \in Sweeps : StartTick(s)
    \/ \E s \in Sweeps : ZRange(s)
    \/ \E s \in Sweeps : HGetAll(s)
    \/ \E s \in Sweeps : ZRank1(s)
    \/ \E s \in Sweeps : ZRank2(s)
    \/ \E s \in Sweeps : ZRem1(s)
    \/ \E s \in Sweeps : ZRem2(s)
    \/ \E s \in Sweeps : HmSave(s)
    \/ \E s \in Sweeps : HmRoom(s)
    \/ \E s \in Sweeps : HmXAdd(s)
    \/ \E s \in Sweeps : ToZRem(s)
    \/ \E s \in Sweeps : ToDel(s)

SpecOverlap == Init /\ [][NextOverlap]_vars

\* Ticks that never overlap, over one key less, where no awaited call rejects and
\* no owner cancels.
NextLive ==
    \/ Tick
    \/ \E k \in 1..(MaxKeys - 1), p \in Profiles : Enqueue(k, p)
    \/ \E k \in Keys : Disconnect(k)
    \/ \E s \in Sweeps : StartTickAlone(s)
    \/ \E s \in Sweeps : ZRange(s)
    \/ \E s \in Sweeps : HGetAll(s)
    \/ \E s \in Sweeps : ZRank1(s)
    \/ \E s \in Sweeps : ZRank2(s)
    \/ \E s \in Sweeps : ZRem1(s)
    \/ \E s \in Sweeps : ZRem2(s)
    \/ \E s \in Sweeps : HmSave(s)
    \/ \E s \in Sweeps : HmRoom(s)
    \/ \E s \in Sweeps : HmXAdd(s)
    \/ \E s \in Sweeps : ToZRem(s)
    \/ \E s \in Sweeps : ToDel(s)

\* The same with the scheduling the runtime gives: the clock runs, the interval
\* timer fires again once the callback has returned (line 90), and every awaited
\* call settles.
SpecLive ==
    /\ Init
    /\ [][NextLive]_vars
    /\ WF_vars(Tick)
    /\ WF_vars(\E s \in Sweeps : StartTickAlone(s))
    /\ \A s \in Sweeps :
          /\ WF_vars(ZRange(s)) /\ WF_vars(HGetAll(s))
          /\ WF_vars(ZRank1(s)) /\ WF_vars(ZRank2(s))
          /\ WF_vars(ZRem1(s)) /\ WF_vars(ZRem2(s))
          /\ WF_vars(HmSave(s)) /\ WF_vars(HmRoom(s)) /\ WF_vars(HmXAdd(s))
          /\ WF_vars(ToZRem(s)) /\ WF_vars(ToDel(s))

\* Ticks that never overlap, over one key less, where any awaited call may reject.
NextLiveFaults ==
    \/ Tick
    \/ \E k \in 1..(MaxKeys - 1), p \in Profiles : Enqueue(k, p)
    \/ \E k \in Keys : Disconnect(k)
    \/ \E s \in Sweeps : StartTickAlone(s)
    \/ \E s \in Sweeps : ZRange(s)
    \/ \E s \in Sweeps : HGetAll(s)
    \/ \E s \in Sweeps : ZRank1(s)
    \/ \E s \in Sweeps : ZRank2(s)
    \/ \E s \in Sweeps : ZRem1(s)
    \/ \E s \in Sweeps : ZRem2(s)
    \/ \E s \in Sweeps : HmSave(s)
    \/ \E s \in Sweeps : HmRoom(s)
    \/ \E s \in Sweeps : HmXAdd(s)
    \/ \E s \in Sweeps : HmFail(s)
    \/ \E s \in Sweeps : ToZRem(s)
    \/ \E s \in Sweeps : ToDel(s)
    \/ \E s \in Sweeps : StoreFail(s)

\* The same scheduling; an awaited call settles by its reply or by a rejection.
SpecLiveFaults ==
    /\ Init
    /\ [][NextLiveFaults]_vars
    /\ WF_vars(Tick)
    /\ WF_vars(\E s \in Sweeps : StartTickAlone(s))
    /\ \A s \in Sweeps :
          /\ WF_vars(ZRange(s)) /\ WF_vars(HGetAll(s))
          /\ WF_vars(ZRank1(s)) /\ WF_vars(ZRank2(s))
          /\ WF_vars(ZRem1(s)) /\ WF_vars(ZRem2(s))
          /\ WF_vars(HmSave(s)) /\ WF_vars(HmRoom(s)) /\ WF_vars(HmXAdd(s))
          /\ WF_vars(ToZRem(s)) /\ WF_vars(ToDel(s))

\* ------------------------------------------ one sweep at the timeout's bound

\* The entry's requestedAt and the tick's Date.now() lie within MaxBoundaryOffset
\* milliseconds of 0 and of MATCH_TIMEOUT.
MaxBoundaryOffset == 2

\* One entry waits, enqueued at requestedAt; Date.now() is near MATCH_TIMEOUT and
\* the owner's socket is connected or not.
InitBoundary ==
    /\ \E requestedAt \in 0..MaxBoundaryOffset, p \in Profiles :
          hash = [k \in Keys |->
                    IF k = 1
                    THEN [id |-> 1, category |-> p.category,
                          difficulty |-> p.difficulty, requestedAt |-> requestedAt]
                    ELSE NoHash]
    /\ clock \in {MATCH_TIMEOUT + d : d \in (-MaxBoundaryOffset)..MaxBoundaryOffset}
    /\ connected \in {{}, {1}}
    /\ queue = {1}
    /\ enqueued = 1
    /\ sw = [s \in Sweeps |-> NoSweep]
    /\ matchDocs = <<>>
    /\ rooms = <<>>
    /\ matchEvents = <<>>
    /\ handed = [k \in Keys |-> 0]
    /\ failedEmits = [k \in Keys |-> 0]
    /\ probe = NoProbe

\* The ticks over the single entry: no partner, so the pairing scan ends after
\* the presence check of the entry and handleTimeouts runs.
NextBoundary ==
    \/ \E s \in Sweeps : StartTickAlone(s)
    \/ \E s \in Sweeps : ZRange(s)
    \/ \E s \in Sweeps : HGetAll(s)
    \/ \E s \in Sweeps : ZRank1(s)
    \/ \E s \in Sweeps : ToZRem(s)
    \/ \E s \in Sweeps : ToDel(s)

SpecBoundary == InitBoundary /\ [][NextBoundary]_vars

\* ------------------------------------------------- calls of the pure functions

\* Any arguments of canUsersMatch.
InitCanUsersMatch ==
    /\ InitStores
    /\ probe \in [fn : {"canUsersMatch"}, user1 : ProbeUsers, user2 : ProbeUsers,
                   relaxationLevel1 : ProbeLevels, relaxationLevel2 : ProbeLevels,
                   called : {FALSE}, result : {FALSE}]

\* The call canUsersMatch(user1, user2, relaxationLevel1, relaxationLevel2).
CallCanUsersMatch ==
    /\ probe.fn = "canUsersMatch"
    /\ ~probe.called
    /\ probe' = [probe EXCEPT
                    !.called = TRUE,
                    !.result = canUsersMatch(probe.user1, probe.user2,
                                             probe.relaxationLevel1,
                                             probe.relaxationLevel2)]
    /\ UNCHANGED <<clock, queue, hash, enqueued, connected, sw, matchDocs, rooms,
                   matchEvents, handed, failedEmits>>

SpecCanUsersMatch == InitCanUsersMatch /\ [][CallCanUsersMatch]_vars

\* Any requestedAt (NaN for a hash without the field) and any Date.now().
InitGetRelaxationLevel ==
    /\ InitStores
    /\ probe \in [fn : {"getRelaxationLevel"}, requestedAt : ProbeTimes \cup {NaN},
                   nowMs : ProbeTimes, called : {FALSE}, result : {0}]

\* The call getRelaxationLevel(userData) at Date.now() = nowMs.
CallGetRelaxationLevel ==
    /\ probe.fn = "getRelaxationLevel"
    /\ ~probe.called
    /\ probe' = [probe EXCEPT
                    !.called = TRUE,
                    !.result = getRelaxationLevel([requestedAt |-> probe.requestedAt],
                                                  probe.nowMs)]
    /\ UNCHANGED <<clock, queue, hash, enqueued, connected, sw, matchDocs, rooms,
                   matchEvents, handed, failedEmits>>

SpecGetRelaxationLevel == InitGetRelaxationLevel /\ [][CallGetRelaxationLevel]_vars

\* -------------------------------------------- createOrUpdateUserHistoryEntry

\* The requests the controller receives, in any interleaving.
MaxRequests == 3

Requests == 1..MaxRequests

\* What extractUserIdFromToken returns: a user's id, or null without a valid token.
UserIds == {"u1", "u2"}

TokenUserIds == UserIds \cup {"null"}

\* req.body.roomId; the empty string is falsy.
BodyRoomIds == {"r1", ""}

\* historyEntryModel.findOne({ userId, roomId }): the _id (index) of the first
\* document of the collection with both fields, or 0 for null.
findOne(entries, userId, roomId) ==
    LET found == {e \in 1..Len(entries) :
                     entries[e].userId = userId /\ entries[e].roomId = roomId}
    IN  IF found = {} THEN 0 ELSE Min(found)

\* save() of a new document inserts it.
saveNew(entries, doc) == Append(entries, doc)

\* save() of a found document writes its fields back under its _id.
saveExisting(entries, existingEntry, doc) == [entries EXCEPT ![existingEntry] = doc]

InitHistory ==
    /\ InitStores
    /\ probe \in [fn : {"createOrUpdateUserHistoryEntry"},
                  entries : {<<>>},
                  req : [Requests -> [pc : {"received"},
                                      userId : TokenUserIds,
                                      roomId : BodyRoomIds,
                                      existingEntry : {0},
                                      status : {0}]]]

Answer(r, status) ==
    probe' = [probe EXCEPT !.req[r].pc = "answered", !.req[r].status = status]

\* Lines 358-373: the token, the body's roomId, then findOne is issued.
Validate(r) ==
    /\ probe.req[r].pc = "received"
    /\ IF probe.req[r].userId = "null" THEN Answer(r, 401)
       ELSE IF probe.req[r].roomId = "" THEN Answer(r, 400)
       ELSE probe' = [probe EXCEPT !.req[r].pc = "findOne"]
    /\ UNCHANGED <<clock, queue, hash, enqueued, connected, sw, matchDocs, rooms,
                   matchEvents, handed, failedEmits>>

\* Lines 373-382, 386-396: the reply of findOne; the branch is taken and the
\* save of the found or of the new document is issued.
FindOneReplied(r) ==
    /\ probe.req[r].pc = "findOne"
    /\ LET existingEntry == findOne(probe.entries, probe.req[r].userId,
                                    probe.req[r].roomId)
       IN  probe' = [probe EXCEPT
                        !.req[r].existingEntry = existingEntry,
                        !.req[r].pc = IF existingEntry # 0 THEN "saveExisting"
                                      ELSE "saveNew"]
    /\ UNCHANGED <<clock, queue, hash, enqueued, connected, sw, matchDocs, rooms,
                   matchEvents, handed, failedEmits>>

\* Lines 382-384: the found document is saved; 200.
SaveExistingReplied(r) ==
    /\ probe.req[r].pc = "saveExisting"
    /\ probe' = [probe EXCEPT
                    !.entries = saveExisting(@, probe.req[r].existingEntry,
                                             [userId |-> probe.req[r].userId,
                                              roomId |-> probe.req[r].roomId,
                                              attemptCode |-> r]),
                    !.req[r].pc = "answered",
                    !.req[r].status = 200]
    /\ UNCHANGED <<clock, queue, hash, enqueued, connected, sw, matchDocs, rooms,
                   matchEvents, handed, failedEmits>>

\* Lines 396-398: the new document is saved; 201.
SaveNewReplied(r) ==
    /\ probe.req[r].pc = "saveNew"
    /\ probe' = [probe EXCEPT
                    !.entries = saveNew(@, [userId |-> probe.req[r].userId,
                                            roomId |-> probe.req[r].roomId,
                                            attemptCode |-> r]),
                    !.req[r].pc = "answered",
                    !.req[r].status = 201]
    /\ UNCHANGED <<clock, queue, hash, enqueued, connected, sw, matchDocs, rooms,
                   matchEvents, handed, failedEmits>>

\* Lines 400-402: findOne or save rejects; 500.
HistoryStoreFail(r) ==
    /\ probe.req[r].pc \in {"findOne", "saveExisting", "saveNew"}
    /\ Answer(r, 500)
    /\ UNCHANGED <<clock, queue, hash, enqueued, connected, sw, matchDocs, rooms,
                   matchEvents, handed, failedEmits>>

NextHistory ==
    \/ \E r \in Requests : Validate(r)
    \/ \E r \in Requests : FindOneReplied(r)
    \/ \E r \in Requests : SaveExistingReplied(r)
    \/ \E r \in Requests : SaveNewReplied(r)
    \/ \E r \in Requests : HistoryStoreFail(r)

SpecHistory == InitHistory /\ [][NextHistory]_vars

\* ------------------------------------------------------------- properties

PairKeys(p) == {p[1], p[2]}

NoneInFlight == \A s \in Sweeps : ~InFlight(s)

EventsOf(k) ==
    {e \in 1..Len(matchEvents) : matchEvents[e].user1 = k \/ matchEvents[e].user2 = k}

\* C1: within one sweep no userKey is a member of two pairs handed to
\* handleMatch, and no pair holds the same key twice.
NoKeyInTwoPairs ==
    \A s \in Sweeps :
        /\ \A a \in 1..Len(sw[s].pairs) : sw[s].pairs[a][1] # sw[s].pairs[a][2]
        /\ \A a, b \in 1..Len(sw[s].pairs) :
              a # b => PairKeys(sw[s].pairs[a]) \cap PairKeys(sw[s].pairs[b]) = {}

\* C1 witness: a sweep over three entries has handed one pair to handleMatch and
\* goes on to the remaining entry.
PairThenNextEntry ==
    \E s \in Sweeps :
        /\ Len(sw[s].pairs) = 1
        /\ Len(sw[s].validUsers) = 3
        /\ sw[s].pc = "zRank1"

\* C2: no userKey is handed to handleMatch more than once, over all sweeps.
NoKeyMatchedTwice == \A k \in Keys : handed[k] <= 1

\* C3: no entry is both handed to handleMatch and sent MATCH_FAILED by
\* handleTimeouts.
MatchExcludesTimeout == \A k \in Keys : ~(handed[k] > 0 /\ failedEmits[k] > 0)

\* C4: when a sweep has completed, a hash is stored under a userKey if and only
\* if the key is a member of 'matching_queue'.
HashIffQueued ==
    (NoneInFlight /\ \E s \in Sweeps : sw[s].pc = "done")
        => \A k \in Keys : (hash[k] # NoHash) <=> (k \in queue)

\* C5: when handleTimeouts has returned, every snapshot entry whose wait at the
\* tick's `now` reached MATCH_TIMEOUT is out of the queue and has no hash.
TimedOutAreEvicted ==
    \A s \in Sweeps :
        sw[s].pc = "done" =>
            \A x \in 1..Len(sw[s].validUsers) :
                TimedOut(DataAt(sw[s], x), sw[s].now)
                    => /\ KeyAt(sw[s], x) \notin queue
                       /\ hash[KeyAt(sw[s], x)] = NoHash

\* C6: an entry that was never matched is sent MATCH_FAILED at most once.
AtMostOneFailureNotice ==
    \A k \in Keys : handed[k] = 0 => failedEmits[k] <= 1

\* C7: once no sweep is in flight, every userKey that was handed to handleMatch
\* is referenced by an entry of 'match_events'.
NoMatchLost ==
    NoneInFlight => \A k \in Keys : handed[k] > 0 => EventsOf(k) # {}

\* C8: outside handleMatch's window between the save and xAdd, every saved
\* MatchingEvent document is the matchId of exactly one 'match_events' entry.
OneEventPerRecord ==
    (\A s \in Sweeps : sw[s].pc \notin {"hmRoom", "hmXAdd"})
        => \A d \in 1..Len(matchDocs) :
              Cardinality({e \in 1..Len(matchEvents) : matchEvents[e].matchId = d}) = 1

\* C9: in the step that claims a pair (lines 64-67), both userKeys are members
\* of 'matching_queue'.
ClaimedWhileWaiting ==
    [][\A s \in Sweeps :
          (sw[s].pc = "zRank2" /\ sw'[s].pc = "zRem1")
              => {KeyAt(sw[s], sw[s].i), KeyAt(sw[s], sw[s].j)} \subseteq queue]_vars

HandedInSweep(s) == UNION {PairKeys(sw[s].pairs[a]) : a \in 1..Len(sw[s].pairs)}

\* C11: outside the window between the two removals of lines 70-71, and so when
\* the tick has ended in its catch too, every userKey that the pairing scan of a
\* sweep removed from 'matching_queue' was passed to a handleMatch call of that
\* sweep.
RemovedAreHanded ==
    \A s \in Sweeps :
        sw[s].pc # "zRem2" => sw[s].removed \subseteq HandedInSweep(s)

\* C12: a rejection in a tick never stops the scheduler.  A tick starts again
\* and again; a tick that ended in the catch of lines 87-89 is followed by a new
\* tick; and a tick starts with fresh locals, nothing of an earlier tick in them.
TicksKeepComing ==
    /\ []<>(\E s \in Sweeps : sw[s].pc = "zRange")
    /\ \A s \in Sweeps : (sw[s].pc = "failed") ~> (sw[s].pc = "zRange")
    /\ [](\A s \in Sweeps :
            sw[s].pc = "zRange"
                => sw[s] = [NoSweep EXCEPT !.pc = "zRange", !.now = sw[s].now])

\* C12 witness: a tick has run to its end after an earlier tick was ended by a
\* rejection between two removals (a key is out of the queue, its hash is still
\* stored and it was never handed over, while no tick is in flight).
TickCompletesAfterFailure ==
    /\ sw[1].pc = "done"
    /\ \E k \in Keys :
          k <= enqueued /\ k \notin queue /\ hash[k] # NoHash /\ handed[k] = 0

InHandleMatch(s) == sw[s].pc \in {"hmSave", "hmRoom", "hmXAdd"}

\* C13: the step in which handleMatch gives up (it returns without having
\* appended the event) leaves 'matching_queue' as it is and leaves the sweep
\* running: at the presence check of the next userKey1, or in or past
\* handleTimeouts when no userKey1 is left.
HandoffFailureIsContained ==
    [][\A s \in Sweeps :
          (InHandleMatch(s) /\ ~InHandleMatch(s)' /\ matchEvents' = matchEvents)
              => /\ queue' = queue
                 /\ sw'[s].pc \in {"zRank1", "toZRem", "done"}
                 /\ sw'[s].pc = "zRank1" => sw'[s].i > sw[s].i]_vars

\* C13 witness: in a sweep over three entries the handoff of the first pair
\* failed after the save, and the scan has gone on to the third entry.
HandoffFailedScanGoesOn ==
    \E s \in Sweeps :
        /\ Len(sw[s].validUsers) = 3
        /\ Len(sw[s].pairs) = 1
        /\ sw[s].pc = "zRank1"
        /\ Len(matchDocs) = 1
        /\ matchEvents = <<>>

\* C14: every entry whose wait reaches MATCH_TIMEOUT within the modelled time
\* eventually leaves 'matching_queue'.
EveryEntryLeaves ==
    \A k \in Keys :
        (k \in queue /\ hash[k].requestedAt + MATCH_TIMEOUT <= MaxClockSteps * ClockStep)
            ~> (k \notin queue)

CanUsersMatchCalled == probe.fn = "canUsersMatch" /\ probe.called

\* The rule of the claim: relaxedCriteria and isSatisfiedBy as the design states
\* them, A swept over 0..levelA, B taken at levelB only.
ReferenceCriteria(level, entry) ==
    [category   |-> IF level = 2 THEN "Any" ELSE entry.category,
     difficulty |-> IF level = 1 THEN "Any" ELSE entry.difficulty]

ReferenceSatisfiedBy(entry, criteria) ==
    /\ criteria.category \in {"Any", entry.category}
    /\ criteria.difficulty \in {"Any", entry.difficulty}

ReferenceCanMatch(A, B, levelA, levelB) ==
    /\ levelA \in {0, 1, 2}
    /\ levelB \in {0, 1, 2}
    /\ \/ \E i \in 0..levelA : ReferenceSatisfiedBy(B, ReferenceCriteria(i, A))
       \/ ReferenceSatisfiedBy(A, ReferenceCriteria(levelB, B))

\* C15: canUsersMatch returns what the reference rule gives, for all users and
\* all levels, those outside {0,1,2} included (where it returns false).
CanUsersMatchIsReference ==
    CanUsersMatchCalled =>
        probe.result = ReferenceCanMatch(probe.user1, probe.user2,
                                         probe.relaxationLevel1, probe.relaxationLevel2)

\* C15 witness: a call that returns false although user1 satisfies the criteria
\* of user2 at level 1, below user2's level 2.
BelowMaximumLevelIgnored ==
    /\ CanUsersMatchCalled
    /\ ~probe.result
    /\ probe.relaxationLevel1 = 0
    /\ probe.relaxationLevel2 = 2
    /\ ReferenceSatisfiedBy(probe.user1, ReferenceCriteria(1, probe.user2))

\* C16: the level is 0 iff the elapsed time is at most RELAXATION_INTERVAL, 1 iff
\* it is above that and at most twice RELAXATION_INTERVAL, and 2 otherwise (also
\* for an elapsed time that is NaN); it is always one of 0, 1, 2.
LevelBoundsInclusive ==
    (probe.fn = "getRelaxationLevel" /\ probe.called) =>
        LET elapsed == probe.nowMs - probe.requestedAt
            known   == ~IsNaN(probe.requestedAt)
        IN  /\ probe.result \in {0, 1, 2}
            /\ probe.result = 0 <=> (known /\ elapsed <= RELAXATION_INTERVAL)
            /\ probe.result = 1 <=> (/\ known
                                      /\ elapsed > RELAXATION_INTERVAL
                                      /\ elapsed <= 2 * RELAXATION_INTERVAL)

\* C16 witness: the call with elapsed = RELAXATION_INTERVAL + 1 has returned 1.
OnePastTheInterval ==
    /\ probe.fn = "getRelaxationLevel"
    /\ probe.called
    /\ ~IsNaN(probe.requestedAt)
    /\ probe.nowMs - probe.requestedAt = RELAXATION_INTERVAL + 1
    /\ probe.result = 1

\* C19: for two users with different categories and the same difficulty,
\* canUsersMatch returns false when both levels are 0 or 1, and true when the
\* level of user1 (the one checked first) is 2 and the level of user2 is valid.
OtherCategoryNeedsLevelTwo ==
    (/\ CanUsersMatchCalled
     /\ probe.user1.category # probe.user2.category
     /\ probe.user1.difficulty = probe.user2.difficulty)
        => /\ (probe.relaxationLevel1 \in {0, 1} /\ probe.relaxationLevel2 \in {0, 1})
                  => ~probe.result
           /\ (probe.relaxationLevel1 = 2 /\ probe.relaxationLevel2 \in {0, 1, 2})
                  => probe.result

\* C19 witness: Math/Easy against Science/Easy, both at level 1, has returned
\* false.
ScenarioBLevelOne ==
    /\ CanUsersMatchCalled
    /\ probe.user1 = [category |-> "Math", difficulty |-> "Easy"]
    /\ probe.user2 = [category |-> "Science", difficulty |-> "Easy"]
    /\ probe.relaxationLevel1 = 1
    /\ probe.relaxationLevel2 = 1
    /\ ~probe.result

Ascending(r) ==
    \A x, y \in 1..Len(r.validUsers) :
        (/\ x < y
         /\ ~IsNaN(r.validUsers[x].userData.requestedAt)
         /\ ~IsNaN(r.validUsers[y].userData.requestedAt))
            => r.validUsers[x].userData.requestedAt <= r.validUsers[y].userData.requestedAt

\* Entry x of the snapshot was rightly passed over as a partner of entry r.i: it
\* was claimed before, or found absent, or not compatible with r.i at a time of
\* this sweep (its start, or the one clock step later that a sweep may see).
PassedOver(r, x) ==
    \/ KeyAt(r, x) \in r.matchedUsers
    \/ KeyAt(r, x) \in r.absent
    \/ \E c \in {r.now, clock} :
          ~canUsersMatch(DataAt(r, r.i), DataAt(r, x), r.relaxationLevel1,
                         getRelaxationLevel(DataAt(r, x), c))

\* C17: the snapshot is visited in ascending order of requestedAt, the indices
\* i and (i, j) of the presence checks only grow; a pair (i, j) is claimed only
\* when every entry between i and j was claimed before, absent or incompatible;
\* when handleMatch is called both keys are out of 'matching_queue'; and after
\* handleMatch the scan goes on with a later i, never with another j for this i.
GreedyFirstFit ==
    /\ [](\A s \in Sweeps : Ascending(sw[s]))
    /\ [](\A s \in Sweeps :
            sw[s].pc = "zRem1"
                => /\ sw[s].i < sw[s].j
                   /\ \A x \in (sw[s].i + 1)..(sw[s].j - 1) : PassedOver(sw[s], x))
    /\ [](\A s \in Sweeps :
            sw[s].pc = "hmSave"
                => {KeyAt(sw[s], sw[s].i), KeyAt(sw[s], sw[s].j)} \cap queue = {})
    /\ [][\A s \in Sweeps :
            /\ (/\ sw[s].pc \in {"zRank1", "zRank2"}
                /\ sw'[s].pc \in {"zRank1", "zRank2"}
                /\ sw'[s] # sw[s])
                   => \/ sw'[s].i > sw[s].i
                      \/ sw'[s].i = sw[s].i /\ sw'[s].j > sw[s].j
            /\ (InHandleMatch(s) /\ ~InHandleMatch(s)')
                   => /\ sw'[s].pc # "zRank2"
                      /\ sw'[s].pc = "zRank1" => sw'[s].i > sw[s].i]_vars

\* C17 witness: entry 1 has passed over entry 2, which is waiting, unclaimed and
\* incompatible, and has claimed entry 3.
SecondCandidateTaken ==
    \E s \in Sweeps :
        /\ sw[s].pc = "zRem1"
        /\ sw[s].i = 1
        /\ sw[s].j = 3
        /\ KeyAt(sw[s], 2) \in queue
        /\ KeyAt(sw[s], 2) \notin sw[s].matchedUsers

\* C18: no entry of a sweep's snapshot is a key that had no hash when hGetAll
\* read it.
MissingRecordDropped ==
    \A s \in Sweeps :
        \A x \in 1..Len(sw[s].validUsers) : DataAt(sw[s], x) # EmptyObject

\* handleTimeouts leaves alone every snapshot entry whose wait at the tick's
\* `now` is below MATCH_TIMEOUT: no MATCH_FAILED, still queued, hash still stored.
NoPrematureEviction ==
    \A s \in Sweeps :
        \A x \in 1..Len(sw[s].validUsers) :
            (/\ ~IsNaN(DataAt(sw[s], x).requestedAt)
             /\ sw[s].now - DataAt(sw[s], x).requestedAt < MATCH_TIMEOUT)
                => /\ failedEmits[KeyAt(sw[s], x)] = 0
                   /\ KeyAt(sw[s], x) \in queue
                   /\ hash[KeyAt(sw[s], x)] # NoHash

\* When handleTimeouts has returned, every snapshot entry whose wait at the
\* tick's `now` is exactly MATCH_TIMEOUT is out of the queue, without its hash.
EvictedAtTheBound ==
    \A s \in Sweeps :
        sw[s].pc = "done" =>
            \A x \in 1..Len(sw[s].validUsers) :
                (/\ ~IsNaN(DataAt(sw[s], x).requestedAt)
                 /\ sw[s].now - DataAt(sw[s], x).requestedAt = MATCH_TIMEOUT)
                    => /\ KeyAt(sw[s], x) \notin queue
                       /\ hash[KeyAt(sw[s], x)] = NoHash

\* C21: handleTimeouts touches no entry whose wait is below MATCH_TIMEOUT, and
\* the bound is inclusive: an entry whose wait is MATCH_TIMEOUT is evicted.
EvictionExactlyFromTheBound == NoPrematureEviction /\ EvictedAtTheBound

\* The values Date.now() takes.
ClockReads == {m * ClockStep : m \in 0..MaxClockSteps}

\* The sweep r is about to test the ordered pair (i, j), both entries still
\* waiting.  An earlier sweep read Date.now() as c1 for the first entry's level
\* and as c2 for the second's, with both entries already waiting, before r began.
EarlierReads(r) ==
    {c \in ClockReads \X ClockReads :
        /\ DataAt(r, r.j).requestedAt <= c[1]
        /\ DataAt(r, r.i).requestedAt <= c[1]
        /\ c[1] <= c[2]
        /\ c[2] <= r.now}

CompatibleAt(r, c) ==
    canUsersMatch(DataAt(r, r.i), DataAt(r, r.j),
                  getRelaxationLevel(DataAt(r, r.i), c[1]),
                  getRelaxationLevel(DataAt(r, r.j), c[2]))

CompatibleNow(r) ==
    canUsersMatch(DataAt(r, r.i), DataAt(r, r.j), r.relaxationLevel1,
                  getRelaxationLevel(DataAt(r, r.j), clock))

BothWaiting(r) ==
    /\ r.pc = "zRank2"
    /\ KeyAt(r, r.i) \in queue
    /\ KeyAt(r, r.j) \in queue
    /\ ~IsNaN(DataAt(r, r.i).requestedAt)
    /\ ~IsNaN(DataAt(r, r.j).requestedAt)

\* C22: a pair that an earlier sweep's canUsersMatch call accepted is accepted by
\* the call of every later sweep in which both entries are still waiting.
CompatibilityOnlyWidens ==
    \A s \in Sweeps :
        BothWaiting(sw[s]) =>
            \A c \in EarlierReads(sw[s]) :
                CompatibleAt(sw[s], c) => CompatibleNow(sw[s])

\* C22 (witness): the earlier sweep read levels 0 and 1 from separate clock reads
\* and accepted the pair on the second entry's criteria alone; the later sweep
\* accepts it at a sub-level of the first entry.
WidenedPairStillCompatible ==
    \E s \in Sweeps :
        /\ BothWaiting(sw[s])
        /\ sw[s].relaxationLevel1 >= 1
        /\ CompatibleNow(sw[s])
        /\ \E c \in EarlierReads(sw[s]) :
              /\ c[1] < c[2]
              /\ c[2] < sw[s].now
              /\ getRelaxationLevel(DataAt(sw[s], sw[s].i), c[1]) = 0
              /\ getRelaxationLevel(DataAt(sw[s], sw[s].j), c[2]) = 1
              /\ CompatibleAt(sw[s], c)
              /\ ~canUsersMatch(DataAt(sw[s], sw[s].i), DataAt(sw[s], sw[s].j), 0, 0)

\* C23: handleTimeouts emits MATCH_FAILED for a snapshot entry only if its key is
\* a member of the queue at the time of the emit.
NotifiedOnlyWhileWaiting ==
    [][\A k \in Keys : failedEmits'[k] # failedEmits[k] => k \in queue']_vars

\* C24: the history collection never holds two entries with the same userId and
\* the same roomId.
OneEntryPerUserAndRoom ==
    probe.fn = "createOrUpdateUserHistoryEntry" =>
        \A a, b \in 1..Len(probe.entries) :
            (/\ probe.entries[a].userId = probe.entries[b].userId
             /\ probe.entries[a].roomId = probe.entries[b].roomId) => a = b

====
